---- MODULE Spec2Model ----
(***************************************************************************)
(* Expense tracking backend: the expense lifecycle (ExpensesService and    *)
(* ExpensesController) over a MongoDB collection accessed through          *)
(* mongoose documents, with the request guards in front of it.             *)
(*                                                                         *)
(* Every `await` on the store is a point where another request may run, so *)
(* updateStatus is three steps: the read with its checks, the save, and    *)
(* the re-read that builds the response.  A client sends its next request  *)
(* after the answer to the previous one, so calls holds at most one        *)
(* request in flight per identity.                                         *)
(*                                                                         *)
(* tokens holds, per anonymous client of /auth, the bearer token it was    *)
(* last issued.                                                            *)
(***************************************************************************)
EXTENDS Integers, Sequences, FiniteSets, TLC

VARIABLES users, expenses, calls, now, response, tokens

vars == <<users, expenses, calls, now, response, tokens>>

(***************************************************************************)
(* Bounds                                                                  *)
(***************************************************************************)
MaxExpenses == 2
MaxNow == 4
(***************************************************************************)
(* Enums (common/enums) and null values                                    *)
(***************************************************************************)
ADMIN == "admin"
EMPLOYEE == "employee"
UserRole == {EMPLOYEE, ADMIN}

PENDING == "pending"
APPROVED == "approved"
REJECTED == "rejected"
ExpenseStatus == {PENDING, APPROVED, REJECTED}

FOOD == "food"
TRAVEL == "travel"
ExpenseCategory == {FOOD, TRAVEL}

NullId == "null"
NullString == "null"
NullDate == 0
Undefined == "undefined"

(***************************************************************************)
(* Identities.  The expense lifecycle runs against a user collection that  *)
(* already holds two admins and two employees.                             *)
(***************************************************************************)
UserIds == {"A1", "A2", "E1", "E2"}

SeedUsers ==
    [u \in UserIds |->
        [email |-> u \o "@example.com",
         firstName |-> u,
         role |-> IF u \in {"A1", "A2"} THEN ADMIN ELSE EMPLOYEE,
         isActive |-> TRUE]]

(***************************************************************************)
(* Request inputs                                                          *)
(***************************************************************************)
\* ISO date strings accepted by @IsDateString and the instant new Date(s)
\* yields for them, in half days since 2025-10-01T00:00Z.
ParseDate(s) ==
    CASE s = "2025-10-15" -> 28
      [] s = "2025-10-18" -> 34
      [] s = "2025-10-20" -> 38
      [] s = "2025-10-20T12:00:00Z" -> 39
      [] s = "2025-10-21" -> 40
      [] s = "2025-10-22" -> 42
      [] s = "2025-10-23" -> 44
      [] s = "2025-10-25" -> 48
      [] s = "2025-10-26" -> 50

\* POST /expenses requests: the caller and the body; amounts in cents.
CreateRequests ==
    { <<"E1", [amount |-> 4500, category |-> FOOD,
               expenseDate |-> "2025-10-20"]>>,
      <<"E2", [amount |-> 15050, category |-> TRAVEL,
               expenseDate |-> "2025-10-15"]>> }

\* Callers of PATCH /expenses/:id/status.
StatusCallers == {"A1", "A2", "E1"}

Reasons == {"policy"}

\* Bodies of PATCH /expenses/:id/status.  rejectionReason is optional and
\* may be the empty string.
StatusDtos ==
    [status : ExpenseStatus, rejectionReason : {Undefined, ""} \cup Reasons]

\* Path parameter :id.  0 stands for a string that is not an ObjectId; ids
\* above the collection size are well-formed but match no document.
InvalidId == 0
IdParams == 0..(MaxExpenses + 1)

isValid(id) == id # InvalidId

\* JavaScript truthiness of an optional string.
Truthy(s) == s \notin {Undefined, NullString, ""}

(***************************************************************************)
(* HTTP outcomes                                                           *)
(***************************************************************************)
Ok(body) == [error |-> "none", message |-> "", body |-> body]
Err(e, m) == [error |-> e, message |-> m, body |-> <<>>]

Unauthorized == Err("Unauthorized", "User not found or inactive")
Forbidden == Err("Forbidden", "Forbidden resource")
InvalidExpenseId == Err("NotFound", "Invalid expense ID")
ExpenseNotFound == Err("NotFound", "Expense not found")
ViewForbidden == Err("Forbidden", "You can only view your own expenses")
InvalidTransition ==
    Err("BadRequest", "Only pending expenses can be approved or rejected")
MissingReason ==
    Err("BadRequest", "Rejection reason is required when rejecting an expense")

NoResponse ==
    [op |-> "none", caller |-> NullId, fetched |-> FALSE, result |-> Ok(<<>>)]

(***************************************************************************)
(* Guards                                                                  *)
(***************************************************************************)
\* validate without the isActive test.
validate_IgnoreActive(sub) ==
    IF sub \notin DOMAIN users
    THEN Unauthorized
    ELSE Ok([id |-> sub, email |-> users[sub].email, role |-> users[sub].role])

\* JwtStrategy.validate: the caller of the request, resolved from the
\* token's subject.
validate(sub) ==
    IF sub \notin DOMAIN users \/ ~users[sub].isActive
    THEN Unauthorized
    ELSE Ok([id |-> sub, email |-> users[sub].email, role |-> users[sub].role])

\* The controller with the @Roles decorators left out.
RequiredRoles_Undecorated(handler) == {}

\* The controllers with @Roles on updateStatus only.
RequiredRoles_StatusOnly(handler) ==
    CASE handler = "updateStatus" -> {ADMIN}
      [] OTHER -> {}

\* @Roles(...) metadata of the handlers of ExpensesController and of
\* AuthController.
RequiredRoles(handler) ==
    CASE handler = "updateStatus" -> {ADMIN}
      [] handler = "getPendingExpenses" -> {ADMIN}
      [] handler = "getAllUsers" -> {ADMIN}
      [] OTHER -> {}

\* RolesGuard: a handler without @Roles is open to every authenticated
\* caller, otherwise the caller's role must be one of the listed roles.
RolesGuard(handler, role) ==
    RequiredRoles(handler) = {} \/ role \in RequiredRoles(handler)

(***************************************************************************)
(* The expenses collection                                                 *)
(***************************************************************************)
ExpenseIds == 1..Len(expenses)

\* A path of the object spread into the model constructor, or the schema
\* default when the object has no such property.
Spread(dto, path, default) ==
    IF path \in DOMAIN dto THEN dto[path] ELSE default

\* The constructor argument with the spread last, {userId, status, ...dto}:
\* the body's userId and status replace the caller's id and PENDING.
NewExpense_SpreadLast(id, userId, dto, createdAt) ==
    [_id |-> id,
     amount |-> dto.amount,
     category |-> dto.category,
     expenseDate |-> ParseDate(dto.expenseDate),
     status |-> Spread(dto, "status", PENDING),
     rejectionReason |-> Spread(dto, "rejectionReason", NullString),
     userId |-> Spread(dto, "userId", userId),
     approvedBy |-> Spread(dto, "approvedBy", NullId),
     approvedAt |-> IF "approvedAt" \in DOMAIN dto
                    THEN ParseDate(dto.approvedAt) ELSE NullDate,
     createdAt |-> createdAt]

\* new this.expenseModel({...dto, userId, status}) with the schema defaults:
\* userId and status come after the spread and replace what the body
\* carries under these names; every other schema path is taken from the
\* body when the body has it.
NewExpense(id, userId, dto, createdAt) ==
    [_id |-> id,
     amount |-> dto.amount,
     category |-> dto.category,
     expenseDate |-> ParseDate(dto.expenseDate),
     status |-> PENDING,
     rejectionReason |-> Spread(dto, "rejectionReason", NullString),
     userId |-> userId,
     approvedBy |-> Spread(dto, "approvedBy", NullId),
     approvedAt |-> IF "approvedAt" \in DOMAIN dto
                    THEN ParseDate(dto.approvedAt) ELSE NullDate,
     createdAt |-> createdAt]

\* .populate('user', 'firstName lastName email role')
populate(e) ==
    [expense |-> e,
     user |-> [firstName |-> users[e.userId].firstName,
               email |-> users[e.userId].email,
               role |-> users[e.userId].role]]

Init ==
    /\ users = SeedUsers
    /\ expenses = <<>>
    /\ calls = [u \in UserIds |-> [pc |-> "idle"]]
    /\ now = 1
    /\ response = NoResponse
    /\ tokens = <<>>

(***************************************************************************)
(* POST /expenses                                                          *)
(***************************************************************************)
ValidationError == Err("BadRequest", "Bad Request")

\* @IsDateString(): the ISO 8601 strings among the inputs.
IsDateString(s) ==
    s \in {"2025-10-15", "2025-10-18", "2025-10-20", "2025-10-20T12:00:00Z",
           "2025-10-21", "2025-10-22", "2025-10-23", "2025-10-25",
           "2025-10-26"}

\* The DTO without @Min(0.01).
CreateExpenseDtoValid_NoMin(dto) ==
    /\ dto.amount \in Int
    /\ dto.category \in ExpenseCategory
    /\ IsDateString(dto.expenseDate)

\* The decorators of CreateExpenseDto; amounts are in cents, so @Min(0.01)
\* is amount >= 1.
CreateExpenseDtoValid(dto) ==
    /\ dto.amount \in Int
    /\ dto.amount >= 1
    /\ dto.category \in ExpenseCategory
    /\ IsDateString(dto.expenseDate)

\* create saving a document before the body is validated.
create_SaveThenValidate(caller, dto) ==
    /\ Len(expenses) < MaxExpenses
    /\ now < MaxNow
    /\ LET user == validate(caller) IN
       IF user.error # "none"
       THEN /\ response' = [op |-> "create", caller |-> caller,
                            fetched |-> FALSE, result |-> user]
            /\ UNCHANGED <<expenses, now>>
       ELSE LET e == NewExpense(Len(expenses) + 1, user.body.id,
                                [amount |-> dto.amount,
                                 category |-> dto.category,
                                 expenseDate |-> "2025-10-20"], now) IN
            /\ expenses' = Append(expenses, e)
            /\ now' = now + 1
            /\ response' = [op |-> "create", caller |-> caller,
                            fetched |-> TRUE,
                            result |-> IF CreateExpenseDtoValid(dto)
                                       THEN Ok(populate(e))
                                       ELSE ValidationError]
    /\ UNCHANGED <<users, calls, tokens>>

create(caller, dto) ==
    /\ Len(expenses) < MaxExpenses
    /\ now < MaxNow
    /\ LET user == validate(caller) IN
       IF user.error # "none"
       THEN /\ response' = [op |-> "create", caller |-> caller,
                            fetched |-> FALSE, result |-> user]
            /\ UNCHANGED <<expenses, now>>
       ELSE IF ~CreateExpenseDtoValid(dto)
       THEN /\ response' = [op |-> "create", caller |-> caller,
                            fetched |-> FALSE, result |-> ValidationError]
            /\ UNCHANGED <<expenses, now>>
       ELSE LET e == NewExpense(Len(expenses) + 1, user.body.id, dto, now) IN
            /\ expenses' = Append(expenses, e)
            /\ now' = now + 1
            /\ response' = [op |-> "create", caller |-> caller,
                            fetched |-> TRUE,
                            result |-> Ok(populate(e))]
    /\ UNCHANGED <<users, calls, tokens>>

(***************************************************************************)
(* Mongoose documents.  Assigning a path marks it modified only when the   *)
(* value differs from the one loaded; save() of a loaded document sends    *)
(* updateOne({_id}, {$set: <modified paths>}) and nothing else.            *)
(***************************************************************************)
\* doc[path] = val on a hydrated document: <<document, modified paths>>.
DocSet(d, path, val) ==
    IF d.doc[path] = val
    THEN d
    ELSE [doc |-> [d.doc EXCEPT ![path] = val],
          modified |-> d.modified \cup {path}]

\* The stored record after the $set of the document's modified paths.
SaveDelta(stored, d) ==
    [p \in DOMAIN stored |->
        IF p \in d.modified THEN d.doc[p] ELSE stored[p]]

(***************************************************************************)
(* PATCH /expenses/:id/status                                              *)
(***************************************************************************)
\* The assignments with the owner overwritten as well.
AssignDecision_Reown(loaded, dto, adminId, date) ==
    LET d0 == [doc |-> loaded, modified |-> {}]
        d1 == DocSet(d0, "status", dto.status)
        d2 == DocSet(d1, "approvedBy", adminId)
        d3 == DocSet(d2, "approvedAt", date)
        d4 == DocSet(d3, "userId", adminId)
    IN  IF Truthy(dto.rejectionReason)
        THEN DocSet(d4, "rejectionReason", dto.rejectionReason)
        ELSE d4

\* Lines 134-140: the in-memory assignments on the loaded document.
AssignDecision(loaded, dto, adminId, date) ==
    LET d0 == [doc |-> loaded, modified |-> {}]
        d1 == DocSet(d0, "status", dto.status)
        d2 == DocSet(d1, "approvedBy", adminId)
        d3 == DocSet(d2, "approvedAt", date)
    IN  IF Truthy(dto.rejectionReason)
        THEN DocSet(d3, "rejectionReason", dto.rejectionReason)
        ELSE d3

\* The checks without the test of the loaded status.
UpdateStatusCheck_AnyStatus(id, dto) ==
    IF ~isValid(id) THEN InvalidExpenseId
    ELSE IF id \notin ExpenseIds THEN ExpenseNotFound
    ELSE IF dto.status = REJECTED /\ ~Truthy(dto.rejectionReason)
         THEN MissingReason
    ELSE Ok(<<>>)

\* The checks with the test of the reason before the test of the status.
UpdateStatusCheck_ReasonFirst(id, dto) ==
    IF ~isValid(id) THEN InvalidExpenseId
    ELSE IF id \notin ExpenseIds THEN ExpenseNotFound
    ELSE IF dto.status = REJECTED /\ ~Truthy(dto.rejectionReason)
         THEN MissingReason
    ELSE IF expenses[id].status # PENDING THEN InvalidTransition
    ELSE Ok(<<>>)

\* Lines 110-132: what the service answers before it writes anything, or
\* "none" when every check passes.
UpdateStatusCheck(id, dto) ==
    IF ~isValid(id) THEN InvalidExpenseId
    ELSE IF id \notin ExpenseIds THEN ExpenseNotFound
    ELSE IF expenses[id].status # PENDING THEN InvalidTransition
    ELSE IF dto.status = REJECTED /\ ~Truthy(dto.rejectionReason)
         THEN MissingReason
    ELSE Ok(<<>>)

\* What the request is answered before it writes anything: the guards in
\* front of the controller, then the service's checks.  fetched tells
\* whether the service's findById ran.  An answer without error means the
\* request goes on to save.
updateStatusOutcome(caller, id, dto) ==
    LET user == validate(caller) IN
    IF user.error # "none"
    THEN [fetched |-> FALSE, result |-> user]
    ELSE IF ~RolesGuard("updateStatus", user.body.role)
    THEN [fetched |-> FALSE, result |-> Forbidden]
    ELSE [fetched |-> isValid(id), result |-> UpdateStatusCheck(id, dto)]

\* The request up to the first write: guards, the controller, and the
\* service's findById with the checks and assignments that follow it.
updateStatusFind(caller, id, dto) ==
    /\ calls[caller].pc = "idle"
    /\ LET o == updateStatusOutcome(caller, id, dto) IN
       IF o.result.error # "none"
       THEN /\ response' = [op |-> "updateStatus", caller |-> caller,
                            fetched |-> o.fetched, result |-> o.result]
            /\ UNCHANGED <<calls, now>>
       ELSE /\ now < MaxNow
            /\ calls' = [calls EXCEPT ![caller] =
                   [pc |-> "save", id |-> id,
                    expense |-> AssignDecision(expenses[id], dto,
                                               caller, now)]]
            /\ now' = now + 1
            /\ UNCHANGED response
    /\ UNCHANGED <<users, expenses, tokens>>

\* Line 142: await expense.save()
updateStatusSave(c) ==
    /\ calls[c].pc = "save"
    /\ expenses' = [expenses EXCEPT ![calls[c].id] =
                        SaveDelta(@, calls[c].expense)]
    /\ calls' = [calls EXCEPT ![c].pc = "refetch"]
    /\ UNCHANGED <<users, now, response, tokens>>

\* Lines 144-147: the response is the record as stored now.
updateStatusReturn(c) ==
    /\ calls[c].pc = "refetch"
    /\ calls' = [calls EXCEPT ![c] = [pc |-> "idle"]]
    /\ response' = [op |-> "updateStatus", caller |-> c,
                    fetched |-> TRUE,
                    result |-> Ok(populate(expenses[calls[c].id]))]
    /\ UNCHANGED <<users, expenses, now, tokens>>

(***************************************************************************)
(* GET /expenses and GET /expenses/:id                                     *)
(***************************************************************************)
\* Query strings of GET /expenses; every parameter is optional.
QueryDates == {"2025-10-15", "2025-10-20"}

Queries ==
    [category : {Undefined} \cup ExpenseCategory,
     status : {Undefined} \cup ExpenseStatus,
     startDate : {Undefined} \cup QueryDates,
     endDate : {Undefined} \cup QueryDates]

ReadCallers == {"A1", "E1", "E2"}

\* The filter without the owner restriction for employees.
Matches_AnyOwner(e, userId, userRole, query) ==
    /\ Truthy(query.category) => e.category = query.category
    /\ Truthy(query.status) => e.status = query.status
    /\ Truthy(query.startDate) => e.expenseDate >= ParseDate(query.startDate)
    /\ Truthy(query.endDate) => e.expenseDate <= ParseDate(query.endDate)

\* The filter with endDate as an exclusive bound.
Matches_ExclusiveEnd(e, userId, userRole, query) ==
    /\ userRole = EMPLOYEE => e.userId = userId
    /\ Truthy(query.category) => e.category = query.category
    /\ Truthy(query.status) => e.status = query.status
    /\ Truthy(query.startDate) => e.expenseDate >= ParseDate(query.startDate)
    /\ Truthy(query.endDate) => e.expenseDate < ParseDate(query.endDate)

\* Lines 44-69: the mongo filter, as the predicate it selects by.
Matches(e, userId, userRole, query) ==
    /\ userRole = EMPLOYEE => e.userId = userId
    /\ Truthy(query.category) => e.category = query.category
    /\ Truthy(query.status) => e.status = query.status
    /\ Truthy(query.startDate) => e.expenseDate >= ParseDate(query.startDate)
    /\ Truthy(query.endDate) => e.expenseDate <= ParseDate(query.endDate)

\* .sort({ createdAt: -1 }) and .sort({ createdAt: 1 })
RECURSIVE SortByCreatedAt(_, _)
SortByCreatedAt(S, dir) ==
    IF S = {} THEN <<>>
    ELSE LET first == CHOOSE e \in S : \A f \in S :
                          IF dir = -1 THEN e.createdAt >= f.createdAt
                                      ELSE e.createdAt <= f.createdAt
         IN  <<first>> \o SortByCreatedAt(S \ {first}, dir)

\* ExpensesService.findAll
findAllResult(userId, userRole, query) ==
    LET found == {expenses[i] : i \in
                     {j \in ExpenseIds :
                         Matches(expenses[j], userId, userRole, query)}}
        sorted == SortByCreatedAt(found, -1)
    IN  [i \in 1..Len(sorted) |-> populate(sorted[i])]

\* findOne with the ownership test applied to every role.
findOneResult_OwnerOnly(id, userId, userRole) ==
    IF ~isValid(id) THEN InvalidExpenseId
    ELSE IF id \notin ExpenseIds THEN ExpenseNotFound
    ELSE IF expenses[id].userId # userId THEN ViewForbidden
    ELSE Ok(populate(expenses[id]))

\* findOne with the ownership test of employees before the lookup.
findOneResult_ForbiddenFirst(id, userId, userRole) ==
    IF ~isValid(id) THEN InvalidExpenseId
    ELSE IF userRole = EMPLOYEE
            /\ (id \notin ExpenseIds \/ expenses[id].userId # userId)
         THEN ViewForbidden
    ELSE IF id \notin ExpenseIds THEN ExpenseNotFound
    ELSE Ok(populate(expenses[id]))

\* ExpensesService.findOne
findOneResult(id, userId, userRole) ==
    IF ~isValid(id) THEN InvalidExpenseId
    ELSE IF id \notin ExpenseIds THEN ExpenseNotFound
    ELSE IF userRole = EMPLOYEE /\ expenses[id].userId # userId
         THEN ViewForbidden
    ELSE Ok(populate(expenses[id]))

findAll(caller, query) ==
    /\ LET user == validate(caller) IN
       response' = [op |-> "findAll", caller |-> caller,
                    fetched |-> user.error = "none",
                    result |->
                       IF user.error # "none" THEN user
                       ELSE Ok(findAllResult(user.body.id, user.body.role,
                                             query))]
    /\ UNCHANGED <<users, expenses, calls, now, tokens>>

\* findOne that stamps the record it returns.
findOne_Touch(caller, id) ==
    /\ LET user == validate(caller)
           r == IF user.error # "none" THEN user
                ELSE findOneResult(id, user.body.id, user.body.role)
       IN  /\ response' = [op |-> "findOne", caller |-> caller,
                            fetched |-> user.error = "none" /\ isValid(id),
                            result |-> r]
           /\ expenses' = IF r.error = "none"
                           THEN [expenses EXCEPT ![id].createdAt = now]
                           ELSE expenses
    /\ UNCHANGED <<users, calls, now, tokens>>

findOne(caller, id) ==
    /\ LET user == validate(caller) IN
       response' = [op |-> "findOne", caller |-> caller,
                    fetched |-> user.error = "none" /\ isValid(id),
                    result |->
                       IF user.error # "none" THEN user
                       ELSE findOneResult(id, user.body.id, user.body.role)]
    /\ UNCHANGED <<users, expenses, calls, now, tokens>>

Next ==
    \/ \E r \in CreateRequests : create(r[1], r[2])
    \/ \E c \in StatusCallers, id \in IdParams, d \in StatusDtos :
           updateStatusFind(c, id, d)
    \/ \E c \in StatusCallers : updateStatusSave(c)
    \/ \E c \in StatusCallers : updateStatusReturn(c)

Spec == Init /\ [][Next]_vars

(***************************************************************************)
(* The read side, started from the collections that requests served one    *)
(* after the other leave behind: each record is as create stored it, or as *)
(* one updateStatus then decided it.                                       *)
(***************************************************************************)
StoredRequests ==
    CreateRequests \cup
    { <<"A1", [amount |-> 20000, category |-> TRAVEL,
               expenseDate |-> "2025-10-20T12:00:00Z"]>> }

StoredDecisions ==
    { <<"A1", [status |-> APPROVED, rejectionReason |-> Undefined]>>,
      <<"A2", [status |-> REJECTED, rejectionReason |-> "policy"]>> }

StoredRecords(i) ==
    LET fresh(r) == NewExpense(i, r[1], r[2], i) IN
    { fresh(r) : r \in StoredRequests } \cup
    { SaveDelta(fresh(r), AssignDecision(fresh(r), d[2], d[1],
                                         MaxExpenses + i)) :
        r \in CreateRequests, d \in StoredDecisions }

Stores ==
    UNION { { f \in [1..n -> UNION {StoredRecords(i) : i \in 1..n}] :
                \A i \in 1..n : f[i] \in StoredRecords(i) } :
            n \in 0..MaxExpenses }

InitRead ==
    /\ users = SeedUsers
    /\ expenses \in Stores
    /\ calls = [u \in UserIds |-> [pc |-> "idle"]]
    /\ now = 2 * MaxExpenses + 1
    /\ response = NoResponse
    /\ tokens = <<>>

(***************************************************************************)
(* GET /expenses/pending, GET /expenses/analytics and GET /auth/users      *)
(***************************************************************************)
\* The pending queue sorted newest first.
getPendingExpensesResult_NewestFirst ==
    LET found == {expenses[i] : i \in
                     {j \in ExpenseIds : expenses[j].status = PENDING}}
        sorted == SortByCreatedAt(found, -1)
    IN  [i \in 1..Len(sorted) |-> populate(sorted[i])]

\* ExpensesService.getPendingExpenses
getPendingExpensesResult ==
    LET found == {expenses[i] : i \in
                     {j \in ExpenseIds : expenses[j].status = PENDING}}
        sorted == SortByCreatedAt(found, 1)
    IN  [i \in 1..Len(sorted) |-> populate(sorted[i])]

\* The handler behind JwtAuthGuard and RolesGuard; user is the answer of
\* the JwtAuthGuard for the request.
Guarded(handler, user, result) ==
    IF user.error # "none" THEN user
    ELSE IF ~RolesGuard(handler, user.body.role) THEN Forbidden
    ELSE Ok(result)

getPendingExpenses(caller) ==
    /\ LET user == validate(caller) IN
       response' = [op |-> "getPendingExpenses", caller |-> caller,
                    fetched |-> Guarded("getPendingExpenses", user,
                                        <<>>).error = "none",
                    result |-> Guarded("getPendingExpenses", user,
                                       getPendingExpensesResult)]
    /\ UNCHANGED <<users, expenses, calls, now, tokens>>

\* acc[key] += amount of the reduce callbacks, the key being created with
\* 0 when acc has none (or has 0) under it.
Accumulate(acc, key, amount) ==
    [k \in DOMAIN acc \cup {key} |->
        IF k = key
        THEN (IF key \in DOMAIN acc THEN acc[key] ELSE 0) + amount
        ELSE acc[k]]

\* expenses.reduce(...) by the field path, left to right.
RECURSIVE ReduceBy(_, _)
ReduceBy(found, path) ==
    IF found = <<>> THEN <<>>
    ELSE LET last == found[Len(found)]
         IN  Accumulate(ReduceBy(SubSeq(found, 1, Len(found) - 1), path),
                        last[path], last.amount)

\* expenses.reduce((sum, expense) => sum + Number(expense.amount), 0)
RECURSIVE ReduceSum(_)
ReduceSum(found) ==
    IF found = <<>> THEN 0
    ELSE ReduceSum(SubSeq(found, 1, Len(found) - 1)) + found[Len(found)].amount

\* expenses.filter((e) => e.status === status).length
CountStatus(found, status) ==
    Len(SelectSeq(found, LAMBDA e : e.status = status))

\* getAnalytics over the expenses of every owner, whatever the role.
getAnalyticsResult_AllOwners(userId, userRole) ==
    LET found == expenses
    IN  [totalExpenses |-> Len(found),
         totalAmount |-> ReduceSum(found),
         categoryTotals |-> ReduceBy(found, "category"),
         statusTotals |-> ReduceBy(found, "status"),
         statusCounts |-> [pending |-> CountStatus(found, PENDING),
                           approved |-> CountStatus(found, APPROVED),
                           rejected |-> CountStatus(found, REJECTED)]]

\* ExpensesService.getAnalytics; amounts are in cents.
getAnalyticsResult(userId, userRole) ==
    LET found == SelectSeq(expenses,
                     LAMBDA e : userRole = EMPLOYEE => e.userId = userId)
    IN  [totalExpenses |-> Len(found),
         totalAmount |-> ReduceSum(found),
         categoryTotals |-> ReduceBy(found, "category"),
         statusTotals |-> ReduceBy(found, "status"),
         statusCounts |-> [pending |-> CountStatus(found, PENDING),
                           approved |-> CountStatus(found, APPROVED),
                           rejected |-> CountStatus(found, REJECTED)]]

getAnalytics(caller) ==
    /\ LET user == validate(caller) IN
       response' = [op |-> "getAnalytics", caller |-> caller,
                    fetched |-> user.error = "none",
                    result |->
                       IF user.error # "none" THEN user
                       ELSE Ok(getAnalyticsResult(user.body.id,
                                                  user.body.role))]
    /\ UNCHANGED <<users, expenses, calls, now, tokens>>

\* createdAt of the users: documents are inserted one after the other,
\* so the order of insertion is the order of their timestamps.
CreationOrder ==
    <<"A1", "A2", "E1", "E2", "U1", "U2", "U3", "U4", "U5", "U6", "U7", "U8">>

UserCreatedAt(u) ==
    CHOOSE i \in 1..Len(CreationOrder) : CreationOrder[i] = u

\* .sort({ createdAt: -1 }) on users
RECURSIVE SortUsers(_, _)
SortUsers(S, dir) ==
    IF S = {} THEN <<>>
    ELSE LET first == CHOOSE u \in S : \A v \in S :
                          IF dir = -1
                          THEN UserCreatedAt(u) >= UserCreatedAt(v)
                          ELSE UserCreatedAt(u) <= UserCreatedAt(v)
         IN  <<first>> \o SortUsers(S \ {first}, dir)

\* getAllUsers sorted oldest first.
getAllUsersResult_OldestFirst ==
    LET sorted == SortUsers(DOMAIN users, 1)
    IN  [i \in 1..Len(sorted) |->
            [id |-> sorted[i],
             email |-> users[sorted[i]].email,
             firstName |-> users[sorted[i]].firstName,
             role |-> users[sorted[i]].role,
             isActive |-> users[sorted[i]].isActive,
             createdAt |-> UserCreatedAt(sorted[i])]]

\* AuthService.getAllUsers
getAllUsersResult ==
    LET sorted == SortUsers(DOMAIN users, -1)
    IN  [i \in 1..Len(sorted) |->
            [id |-> sorted[i],
             email |-> users[sorted[i]].email,
             firstName |-> users[sorted[i]].firstName,
             role |-> users[sorted[i]].role,
             isActive |-> users[sorted[i]].isActive,
             createdAt |-> UserCreatedAt(sorted[i])]]

\* GET /auth/users; user is the answer of the JwtAuthGuard for the request.
getAllUsers(caller, user) ==
    /\ response' = [op |-> "getAllUsers", caller |-> caller,
                    fetched |-> Guarded("getAllUsers", user,
                                        <<>>).error = "none",
                    result |-> Guarded("getAllUsers", user,
                                       getAllUsersResult)]
    /\ UNCHANGED <<users, expenses, calls, now, tokens>>

NextRead ==
    \/ \E c \in ReadCallers, q \in Queries : findAll(c, q)
    \/ \E c \in ReadCallers, id \in IdParams : findOne(c, id)
    \/ \E c \in ReadCallers : getPendingExpenses(c)
    \/ \E c \in ReadCallers : getAnalytics(c)
    \/ \E c \in ReadCallers : getAllUsers(c, validate(c))

SpecRead == InitRead /\ [][NextRead]_vars

(***************************************************************************)
(* POST /expenses with bodies that carry more than the properties of       *)
(* CreateExpenseDto.  The validation decorators of the DTO concern its own *)
(* properties; the controller hands the body to the service as it is.      *)
(***************************************************************************)
CreateCallers == {"E1", "E2", "A1"}

CreateBodies ==
    { [amount |-> 4500, category |-> FOOD, expenseDate |-> "2025-10-20"],
      [amount |-> 15050, category |-> TRAVEL, expenseDate |-> "2025-10-15",
       userId |-> "E2", status |-> APPROVED],
      [amount |-> 4500, category |-> FOOD, expenseDate |-> "2025-10-20",
       approvedBy |-> "A1", approvedAt |-> "2025-10-21"],
      [amount |-> 4500, category |-> FOOD, expenseDate |-> "2025-10-20",
       rejectionReason |-> "policy"] }

\* Bodies that break one decorator of CreateExpenseDto each.
InvalidBodies ==
    { [amount |-> 0, category |-> FOOD, expenseDate |-> "2025-10-20"],
      [amount |-> -4500, category |-> FOOD, expenseDate |-> "2025-10-20"],
      [amount |-> 4500, category |-> "bribes", expenseDate |-> "2025-10-20"],
      [amount |-> 4500, category |-> FOOD, expenseDate |-> "not-a-date"] }

NextCreate ==
    \E c \in CreateCallers, body \in CreateBodies \cup InvalidBodies :
        create(c, body)

SpecCreate == Init /\ [][NextCreate]_vars

(***************************************************************************)
(* The users collection                                                    *)
(***************************************************************************)
\* ObjectIds in the order the collection hands them out.
IdPool == <<"U1", "U2", "U3", "U4", "U5", "U6", "U7", "U8">>

NextId == IdPool[Cardinality(DOMAIN users) + 1]

\* bcrypt reads the first 72 bytes of a password.  LongA and LongB stand
\* for two passwords of more than 72 bytes with the same first 72 bytes.
Bytes72(password) ==
    CASE password = "LongA" -> "Long"
      [] password = "LongB" -> "Long"
      [] OTHER -> password

\* bcrypt.hash(password, 10)
hash(password, rounds) ==
    [alg |-> "bcrypt", rounds |-> rounds, digest |-> Bytes72(password)]

\* compare by the password as given instead of by its digest.
compare_Raw(password, hashed) == hashed.digest = password

\* bcrypt.compare(password, hashed)
compare(password, hashed) ==
    hashed = hash(password, hashed.rounds)

\* The lookup with no document ever matching.
userFindOne_Miss(email) == {}

\* userModel.findOne({ email }): the ids of the matching documents, none
\* or (the index on email being unique) one.
userFindOne(email) == {u \in DOMAIN users : users[u].email = email}

\* Without the unique index every insert is accepted.
E11000_NoIndex(email) == FALSE

\* @Prop({ unique: true }) on email: an insert of a second document with
\* the same email is refused by the store with a duplicate key error.
E11000(email) == \E u \in DOMAIN users : users[u].email = email

\* The collection replaced by the new document.
insertOne_Replace(id, doc) == [u \in {id} |-> doc]

\* The collection with one more document.
insertOne(id, doc) ==
    [u \in DOMAIN users \cup {id} |-> IF u = id THEN doc ELSE users[u]]

\* The new document with the requested role dropped.
NewUser_AlwaysEmployee(email, hashedPassword, firstName, role, isActive) ==
    [email |-> email,
     password |-> hashedPassword,
     firstName |-> firstName,
     role |-> EMPLOYEE,
     isActive |-> isActive]

\* new this.userModel({...}); role defaults to EMPLOYEE.
NewUser(email, hashedPassword, firstName, role, isActive) ==
    [email |-> email,
     password |-> hashedPassword,
     firstName |-> firstName,
     role |-> IF Truthy(role) THEN role ELSE EMPLOYEE,
     isActive |-> isActive]

\* The user object of the register and login responses.
PublicUser(id, user) ==
    [id |-> id, email |-> user.email, firstName |-> user.firstName,
     role |-> user.role]

(***************************************************************************)
(* Tokens                                                                  *)
(***************************************************************************)
JWT_SECRET == "JWT_SECRET"

\* JWT_EXPIRATION, in ticks of the clock.
TokenLifetime == 2

\* The signature of a payload under a key.
Sign(payload, key) == <<key, payload.sub, payload.email, payload.exp>>

Payload(token) == [sub |-> token.sub, email |-> token.email, exp |-> token.exp]

NoToken == [sub |-> NullId, email |-> "", exp |-> 0, sig |-> <<>>]

\* AuthService.generateToken: jwtService.sign({ sub, email }) at time iat.
generateToken(id, user, iat) ==
    LET payload == [sub |-> id, email |-> user.email,
                    exp |-> iat + TokenLifetime]
    IN  [sub |-> payload.sub, email |-> payload.email, exp |-> payload.exp,
         sig |-> Sign(payload, JWT_SECRET)]

\* The verification with ignoreExpiration: true.
verify_IgnoreExpiration(token) ==
    token.sig = Sign(Payload(token), JWT_SECRET)

\* passport-jwt with secretOrKey and ignoreExpiration: false: the signature
\* is checked against the secret and the token is refused from exp on.
verify(token) ==
    /\ token.sig = Sign(Payload(token), JWT_SECRET)
    /\ now < token.exp

(***************************************************************************)
(* /auth errors                                                            *)
(***************************************************************************)
UserExists == Err("Conflict", "User with this email already exists")
InvalidCredentials == Err("Unauthorized", "Invalid credentials")
AccountInactive == Err("Unauthorized", "Account is inactive")
TokenInvalid == Err("Unauthorized", "Unauthorized")
\* An exception that is not an HttpException, as the duplicate key error
\* thrown by save().
InternalServerError == Err("InternalServerError", "Internal server error")

(***************************************************************************)
(* POST /auth/register                                                     *)
(***************************************************************************)
Clients == {"R1", "R2"}

RegisterDtos ==
    { [email |-> "admin@example.com", password |-> "admin123",
       firstName |-> "New", role |-> Undefined],
      [email |-> "Admin@example.com", password |-> "hunter2",
       firstName |-> "New", role |-> ADMIN],
      [email |-> "new@example.com", password |-> "hunter2",
       firstName |-> "New", role |-> Undefined],
      [email |-> "new@example.com", password |-> "LongA",
       firstName |-> "New", role |-> Undefined] }

\* Lines 241-249: the lookup and the conflict answer.
registerFind(c, dto) ==
    /\ calls[c].pc = "idle"
    /\ IF userFindOne(dto.email) # {}
       THEN /\ response' = [op |-> "register", caller |-> c,
                            fetched |-> TRUE, result |-> UserExists,
                            request |-> dto]
            /\ UNCHANGED calls
       ELSE /\ calls' = [calls EXCEPT ![c] = [pc |-> "save", dto |-> dto]]
            /\ UNCHANGED response
    /\ UNCHANGED <<users, expenses, now, tokens>>

\* Lines 251-278: hash, new document (isActive takes the schema default,
\* true), save, token and response.
registerSave(c) ==
    /\ calls[c].pc = "save"
    /\ LET dto == calls[c].dto
           user == NewUser(dto.email, hash(dto.password, 10), dto.firstName,
                           dto.role, TRUE)
           token == generateToken(NextId, user, now)
       IN  IF E11000(dto.email)
           THEN /\ response' = [op |-> "register", caller |-> c,
                                fetched |-> TRUE,
                                result |-> InternalServerError,
                                request |-> dto]
                /\ UNCHANGED <<users, tokens>>
           ELSE /\ users' = insertOne(NextId, user)
                /\ tokens' = [tokens EXCEPT ![c] = token]
                /\ response' = [op |-> "register", caller |-> c,
                                fetched |-> TRUE,
                                result |-> Ok([user |->
                                                  PublicUser(NextId, user),
                                               token |-> token]),
                                request |-> dto]
    /\ calls' = [calls EXCEPT ![c] = [pc |-> "idle"]]
    /\ UNCHANGED <<expenses, now>>

(***************************************************************************)
(* POST /auth/login                                                        *)
(***************************************************************************)
LoginEmails ==
    {"admin@example.com", "new@example.com", "nobody@example.com"}
LoginPasswords == {"admin123", "hunter2", "LongB"}
LoginDtos == [email : LoginEmails, password : LoginPasswords]

\* login with the answer for an unknown email told apart.
loginResult_UserNotFound(dto) ==
    LET found == userFindOne(dto.email) IN
    IF found = {} THEN Err("Unauthorized", "User not found")
    ELSE LET u == CHOOSE u \in found : TRUE IN
         IF ~users[u].isActive THEN AccountInactive
         ELSE IF ~compare(dto.password, users[u].password)
              THEN InvalidCredentials
         ELSE Ok([user |-> PublicUser(u, users[u]),
                  token |-> generateToken(u, users[u], now)])

\* login without the isActive test.
loginResult_SkipActive(dto) ==
    LET found == userFindOne(dto.email) IN
    IF found = {} THEN InvalidCredentials
    ELSE LET u == CHOOSE u \in found : TRUE IN
         IF ~compare(dto.password, users[u].password)
         THEN InvalidCredentials
         ELSE Ok([user |-> PublicUser(u, users[u]),
                  token |-> generateToken(u, users[u], now)])

\* login with the password compared before the isActive test.
loginResult_PasswordFirst(dto) ==
    LET found == userFindOne(dto.email) IN
    IF found = {} THEN InvalidCredentials
    ELSE LET u == CHOOSE u \in found : TRUE IN
         IF ~compare(dto.password, users[u].password)
         THEN InvalidCredentials
         ELSE IF ~users[u].isActive THEN AccountInactive
         ELSE Ok([user |-> PublicUser(u, users[u]),
                  token |-> generateToken(u, users[u], now)])

\* AuthService.login
loginResult(dto) ==
    LET found == userFindOne(dto.email) IN
    IF found = {} THEN InvalidCredentials
    ELSE LET u == CHOOSE u \in found : TRUE IN
         IF ~users[u].isActive THEN AccountInactive
         ELSE IF ~compare(dto.password, users[u].password)
              THEN InvalidCredentials
         ELSE Ok([user |-> PublicUser(u, users[u]),
                  token |-> generateToken(u, users[u], now)])

login(c, dto) ==
    /\ calls[c].pc = "idle"
    /\ LET r == loginResult(dto) IN
       /\ response' = [op |-> "login", caller |-> c, fetched |-> TRUE,
                       result |-> r, request |-> dto]
       /\ tokens' = IF r.error = "none"
                    THEN [tokens EXCEPT ![c] = r.body.token]
                    ELSE tokens
    /\ UNCHANGED <<users, expenses, calls, now>>

(***************************************************************************)
(* SeedService.seed, run at startup next to the requests being served.     *)
(***************************************************************************)
SeedUserDocs ==
    [admin |-> NewUser("admin@example.com", hash("admin123", 10),
                       "Admin", ADMIN, TRUE),
     employee1 |-> NewUser("john.doe@example.com", hash("employee123", 10),
                           "John", EMPLOYEE, TRUE),
     employee2 |-> NewUser("jane.smith@example.com", hash("employee123", 10),
                           "Jane", EMPLOYEE, TRUE)]

SeedOrder == <<"admin", "employee1", "employee2", "expenses">>

\* seed without the test of the count.
seedCount_NoCheck ==
    /\ calls["seed"].pc = "idle"
    /\ calls' = [calls EXCEPT !["seed"] = [pc |-> "admin", ids |-> <<>>]]
    /\ UNCHANGED <<users, expenses, now, response, tokens>>

\* Lines 20-25: countDocuments and the early return.
seedCount ==
    /\ calls["seed"].pc = "idle"
    /\ calls' = [calls EXCEPT !["seed"] =
                    IF Cardinality(DOMAIN users) > 0
                    THEN [pc |-> "done", ids |-> <<>>]
                    ELSE [pc |-> "admin", ids |-> <<>>]]
    /\ UNCHANGED <<users, expenses, now, response, tokens>>

\* Lines 27-62: the three user saves, one per step.  A duplicate key error
\* ends seed().
seedSave ==
    /\ calls["seed"].pc \in {"admin", "employee1", "employee2"}
    /\ LET which == calls["seed"].pc
           doc == SeedUserDocs[which]
           next == SeedOrder[1 + CHOOSE i \in 1..3 : SeedOrder[i] = which]
       IN  IF E11000(doc.email)
           THEN /\ calls' = [calls EXCEPT !["seed"].pc = "done"]
                /\ UNCHANGED users
           ELSE /\ users' = insertOne(NextId, doc)
                /\ calls' = [calls EXCEPT !["seed"] =
                                [pc |-> next,
                                 ids |-> Append(@.ids, NextId)]]
    /\ UNCHANGED <<expenses, now, response, tokens>>

\* Lines 65-143: the sample expenses, amounts in cents.
SeedExpenseData(admin, employee1, employee2) ==
    << [userId |-> employee1, amount |-> 15050, category |-> "travel",
        expenseDate |-> "2025-10-15", status |-> APPROVED,
        approvedBy |-> admin, rejectionReason |-> NullString],
       [userId |-> employee1, amount |-> 4500, category |-> "food",
        expenseDate |-> "2025-10-20", status |-> PENDING,
        approvedBy |-> NullId, rejectionReason |-> NullString],
       [userId |-> employee1, amount |-> 29999, category |-> "software",
        expenseDate |-> "2025-10-22", status |-> APPROVED,
        approvedBy |-> admin, rejectionReason |-> NullString],
       [userId |-> employee1, amount |-> 7500,
        category |-> "office_supplies",
        expenseDate |-> "2025-10-25", status |-> PENDING,
        approvedBy |-> NullId, rejectionReason |-> NullString],
       [userId |-> employee2, amount |-> 20000, category |-> "travel",
        expenseDate |-> "2025-10-18", status |-> APPROVED,
        approvedBy |-> admin, rejectionReason |-> NullString],
       [userId |-> employee2, amount |-> 8999, category |-> "equipment",
        expenseDate |-> "2025-10-21", status |-> REJECTED,
        approvedBy |-> admin,
        rejectionReason |-> "Please use company-approved vendors"],
       [userId |-> employee2, amount |-> 12000, category |-> "marketing",
        expenseDate |-> "2025-10-23", status |-> PENDING,
        approvedBy |-> NullId, rejectionReason |-> NullString],
       [userId |-> employee2, amount |-> 3550, category |-> "utilities",
        expenseDate |-> "2025-10-26", status |-> PENDING,
        approvedBy |-> NullId, rejectionReason |-> NullString] >>

\* Lines 145-150: the loop that saves them.  No request of this
\* specification reads or writes expenses, so the loop is one step.
seedExpenses ==
    /\ calls["seed"].pc = "expenses"
    /\ LET ids == calls["seed"].ids
           data == SeedExpenseData(ids[1], ids[2], ids[3])
           n == Len(expenses)
       IN  expenses' = expenses \o
               [i \in 1..Len(data) |->
                   [_id |-> n + i,
                    amount |-> data[i].amount,
                    category |-> data[i].category,
                    expenseDate |-> ParseDate(data[i].expenseDate),
                    status |-> data[i].status,
                    rejectionReason |-> data[i].rejectionReason,
                    userId |-> data[i].userId,
                    approvedBy |-> data[i].approvedBy,
                    approvedAt |-> IF data[i].approvedBy = NullId
                                   THEN NullDate ELSE now,
                    createdAt |-> now]]
    /\ calls' = [calls EXCEPT !["seed"].pc = "done"]
    /\ UNCHANGED <<users, now, response, tokens>>

\* JwtAuthGuard: passport-jwt verifies the token, then JwtStrategy.validate
\* resolves its subject.
JwtAuthGuardResult(token) ==
    IF ~verify(token) THEN TokenInvalid ELSE validate(token.sub)

InitAuth ==
    /\ users = <<>>
    /\ expenses = <<>>
    /\ calls = [c \in Clients \cup {"seed"} |-> [pc |-> "idle"]]
    /\ now = 1
    /\ response = NoResponse
    /\ tokens = [c \in Clients |-> NoToken]

NextAuth ==
    \/ \E c \in Clients, dto \in RegisterDtos : registerFind(c, dto)
    \/ \E c \in Clients : registerSave(c)
    \/ \E c \in Clients, dto \in LoginDtos : login(c, dto)
    \/ \E c \in Clients : getAllUsers(c, JwtAuthGuardResult(tokens[c]))
    \/ seedCount
    \/ seedSave
    \/ seedExpenses

SpecAuth == InitAuth /\ [][NextAuth]_vars

(***************************************************************************)
(* Authenticated requests: the JwtAuthGuard in front of every handler,     *)
(* against the collection seed() leaves, with the clock running and the    *)
(* isActive flag of a user being cleared in the store.                     *)
(***************************************************************************)
SeededUsers ==
    (IdPool[1] :> SeedUserDocs.admin) @@
    (IdPool[2] :> SeedUserDocs.employee1) @@
    (IdPool[3] :> SeedUserDocs.employee2)

\* What a client can put in the Authorization header with the token it
\* holds: the token, the token with another subject, and the same payload
\* signed with a key of its own.
Presentable(token) ==
    IF token = NoToken THEN {}
    ELSE {token} \cup
         {[token EXCEPT !.sub = u] : u \in DOMAIN users} \cup
         {[token EXCEPT !.sig = Sign(Payload(token), "guess")]}

JwtAuthGuard(c, token) ==
    /\ response' = [op |-> "JwtAuthGuard", caller |-> c, fetched |-> TRUE,
                    result |-> JwtAuthGuardResult(token),
                    request |-> token]
    /\ UNCHANGED <<users, expenses, calls, now, tokens>>

\* isActive of a stored user set to false.
deactivate(u) ==
    /\ users[u].isActive
    /\ users' = [users EXCEPT ![u].isActive = FALSE]
    /\ UNCHANGED <<expenses, calls, now, response, tokens>>

tick ==
    /\ now < MaxNow
    /\ now' = now + 1
    /\ UNCHANGED <<users, expenses, calls, response, tokens>>

TokenLogins ==
    [email : {"admin@example.com", "john.doe@example.com",
              "nobody@example.com"},
     password : {"admin123", "employee123"}]

InitToken ==
    /\ users = SeededUsers
    /\ expenses = <<>>
    /\ calls = [c \in Clients |-> [pc |-> "idle"]]
    /\ now = 1
    /\ response = NoResponse
    /\ tokens = [c \in Clients |-> NoToken]

NextToken ==
    \/ \E c \in Clients, dto \in TokenLogins : login(c, dto)
    \/ \E c \in Clients : \E t \in Presentable(tokens[c]) :
           JwtAuthGuard(c, t)
    \/ \E u \in {IdPool[1], IdPool[2]} : deactivate(u)
    \/ tick

SpecToken == InitToken /\ [][NextToken]_vars

(***************************************************************************)
(* The whole API against the seeded collection: one anonymous client, the  *)
(* seeded admin and the two seeded employees, requests of every kind that  *)
(* succeed and that fail.                                                  *)
(***************************************************************************)
AppClient == "R1"
AppAdmin == IdPool[1]
AppEmployees == {IdPool[2], IdPool[3]}

AppRegisterDtos ==
    {dto \in RegisterDtos : dto.password \in {"admin123", "hunter2"}
                            /\ dto.role = Undefined}

AppLogins ==
    {dto \in TokenLogins :
        \/ dto.email = "admin@example.com"
        \/ dto.password = "employee123"}

AppBodies ==
    { [amount |-> 4500, category |-> FOOD, expenseDate |-> "2025-10-20"],
      [amount |-> 0, category |-> FOOD, expenseDate |-> "2025-10-20"],
      [amount |-> 4500, category |-> FOOD, expenseDate |-> "not-a-date"] }

AppStatusDtos ==
    {d \in StatusDtos : /\ d.status \in {APPROVED, REJECTED}
                        /\ d.rejectionReason \in {Undefined, "policy"}}

InitApp ==
    /\ users = SeededUsers
    /\ expenses = <<>>
    /\ calls = [c \in {AppClient, AppAdmin} \cup AppEmployees |->
                   [pc |-> "idle"]]
    /\ now = 1
    /\ response = NoResponse
    /\ tokens = [c \in Clients |-> NoToken]

NextApp ==
    \/ \E dto \in AppRegisterDtos : registerFind(AppClient, dto)
    \/ registerSave(AppClient)
    \/ \E dto \in AppLogins : login(AppClient, dto)
    \/ deactivate(IdPool[3])
    \/ \E body \in AppBodies : create(IdPool[2], body)
    \/ \E c \in AppEmployees, id \in IdParams : findOne(c, id)
    \/ \E c \in {AppAdmin, IdPool[2]}, id \in IdParams,
          d \in AppStatusDtos :
           updateStatusFind(c, id, d)
    \/ updateStatusSave(AppAdmin)
    \/ updateStatusReturn(AppAdmin)

SpecApp == InitApp /\ [][NextApp]_vars

(***************************************************************************)
(* seed() run at every start of the application, next to one client that   *)
(* registers.                                                              *)
(***************************************************************************)
\* The application started again after a run of seed() has ended.
seedRestart ==
    /\ calls["seed"].pc = "done"
    /\ calls' = [calls EXCEPT !["seed"] = [pc |-> "idle"]]
    /\ UNCHANGED <<users, expenses, now, response, tokens>>

NextSeed ==
    \/ \E dto \in RegisterDtos : registerFind("R1", dto)
    \/ registerSave("R1")
    \/ seedCount
    \/ seedSave
    \/ seedExpenses
    \/ seedRestart

SpecSeed == InitAuth /\ [][NextSeed]_vars

(***************************************************************************)
(* Decisions on expenses whose request bodies name an approver: employee   *)
(* E1 creates, the admins A1 and A2 and the employee E1 send               *)
(* PATCH /expenses/:id/status, all interleaved.                            *)
(***************************************************************************)
DecideBodies ==
    { [amount |-> 4500, category |-> FOOD, expenseDate |-> "2025-10-20"],
      [amount |-> 4500, category |-> FOOD, expenseDate |-> "2025-10-20",
       approvedBy |-> "E1", approvedAt |-> "2025-10-21"],
      [amount |-> 15050, category |-> TRAVEL, expenseDate |-> "2025-10-15",
       status |-> APPROVED, approvedBy |-> "E1"] }

NextDecide ==
    \/ \E body \in DecideBodies : create("E1", body)
    \/ \E c \in StatusCallers, id \in IdParams, d \in AppStatusDtos :
           updateStatusFind(c, id, d)
    \/ \E c \in StatusCallers : updateStatusSave(c)
    \/ \E c \in StatusCallers : updateStatusReturn(c)

SpecDecide == Init /\ [][NextDecide]_vars

(***************************************************************************)
(* Properties                                                              *)
(***************************************************************************)
Role(u) == users[u].role
Admins == {u \in DOMAIN users : Role(u) = ADMIN}
Employees == {u \in DOMAIN users : Role(u) = EMPLOYEE}
Decided(e) == e.status \in {APPROVED, REJECTED}
InFlight(c) == calls[c].pc \in {"save", "refetch"}

\* C1: once the stored status of an expense is Approved or Rejected it is
\* never Pending again, and every updateStatus request an admin makes for
\* that id from then on, whatever status and reason it carries, is answered
\* with the "only pending expenses" error.
C1_DecidedRejectsLaterTransitions ==
    /\ [](\A id \in ExpenseIds :
            Decided(expenses[id]) =>
              \A c \in Admins \cap StatusCallers, d \in StatusDtos :
                 updateStatusOutcome(c, id, d).result = InvalidTransition)
    /\ [][\A id \in ExpenseIds :
             Decided(expenses[id]) => expenses'[id].status # PENDING]_vars

C1_Witness ==
    /\ response.op = "updateStatus"
    /\ response.result = InvalidTransition
    /\ \E id \in ExpenseIds : Decided(expenses[id])

\* C2: of two updateStatus calls that run concurrently on the same pending
\* expense with different requested statuses, exactly one succeeds: the
\* store never accepts the save of both.
C2_ExactlyOneTransitionWins ==
    \A s, t \in UserIds :
        (/\ s # t
         /\ calls[s].pc = "refetch"
         /\ calls[t].pc = "refetch"
         /\ calls[s].id = calls[t].id)
        => calls[s].expense.doc.status = calls[t].expense.doc.status

\* C3: the stored status is write-once: a status of Approved or Rejected
\* never changes again.
C3_StatusWriteOnce ==
    [][\A id \in ExpenseIds :
          Decided(expenses[id]) =>
              expenses'[id].status = expenses[id].status]_vars

\* C4: an updateStatus request by an Employee is answered Forbidden before
\* the service is reached: the answer is the same for every id (malformed,
\* unknown or stored, whatever its status) and body, the expense is not
\* fetched, and no call that may write an expense belongs to an Employee.
C4_EmployeeTransitionForbidden ==
    /\ \A c \in Employees \cap StatusCallers, id \in IdParams,
          d \in StatusDtos :
          updateStatusOutcome(c, id, d) =
              [fetched |-> FALSE, result |-> Forbidden]
    /\ \A u \in UserIds : InFlight(u) => u \in Admins
    /\ (response.op = "updateStatus" /\ response.caller \in Employees)
          => (response.result = Forbidden /\ ~response.fetched)

C4_Witness ==
    /\ response.op = "updateStatus"
    /\ response.caller \in Employees
    /\ response.result = Forbidden
    /\ \E id \in ExpenseIds : Decided(expenses[id])
    /\ \E id \in ExpenseIds : expenses[id].status = PENDING

\* C5: a GET /expenses by an Employee, whatever category, status, startDate
\* and endDate it carries and whatever the collection holds, returns no
\* expense of another owner.
C5_EmployeeListsOnlyOwn ==
    /\ \A c \in Employees \cap ReadCallers, q \in Queries :
          LET found == findAllResult(c, Role(c), q) IN
          \A i \in 1..Len(found) : found[i].expense.userId = c
    /\ (response.op = "findAll" /\ response.caller \in Employees) =>
          \A i \in 1..Len(response.result.body) :
              response.result.body[i].expense.userId = response.caller

C5_Witness ==
    /\ response.op = "findAll"
    /\ response.caller \in Employees
    /\ Len(response.result.body) >= 1
    /\ \E j \in ExpenseIds : expenses[j].userId # response.caller

\* C6: GET /expenses/:id for a stored expense is Forbidden for an Employee
\* who is not its owner, and returns the record to an Admin and to the
\* owner.
C6_FindOneOwnership ==
    /\ \A c \in ReadCallers, id \in ExpenseIds :
          LET r == findOneResult(id, c, Role(c))
              owner == expenses[id].userId
          IN  /\ (c \in Employees /\ owner # c) => r.error = "Forbidden"
              /\ c \in Admins => r = Ok(populate(expenses[id]))
              /\ owner = c => r = Ok(populate(expenses[id]))
    /\ (response.op = "findOne" /\ response.result.error = "none") =>
          \/ response.caller \in Admins
          \/ response.result.body.expense.userId = response.caller
    /\ (response.op = "findOne" /\ response.result.error = "Forbidden") =>
          response.caller \in Employees

C6_Witness ==
    /\ response.op = "findOne"
    /\ response.caller \in Employees
    /\ response.result = ViewForbidden
    /\ \E j \in ExpenseIds : expenses[j].userId = response.caller

\* C7: rejecting a Pending expense without a reason, or with an empty one,
\* is answered with the "rejection reason is required" error, and the
\* expense is then still Pending with no approver, no decision timestamp
\* and no rejection reason.
C7_MissingReasonLeavesPending ==
    [][\A c \in Admins \cap StatusCallers, id \in ExpenseIds,
          d \in StatusDtos :
          (/\ expenses[id].status = PENDING
           /\ d.status = REJECTED
           /\ ~Truthy(d.rejectionReason)
           /\ updateStatusFind(c, id, d)) =>
            /\ response'.result = MissingReason
            /\ expenses'[id].status = PENDING
            /\ expenses'[id].approvedBy = NullId
            /\ expenses'[id].approvedAt = NullDate
            /\ expenses'[id].rejectionReason = NullString]_vars

\* C8: a reject with a non-empty reason that found the expense Pending
\* succeeds, and the stored expense then has status Rejected and the
\* supplied reason.
C8_RejectPersistsReason ==
    [][\A c \in StatusCallers :
          (updateStatusReturn(c) /\ calls[c].expense.doc.status = REJECTED) =>
            /\ response'.result.error = "none"
            /\ expenses'[calls[c].id].status = REJECTED
            /\ expenses'[calls[c].id].rejectionReason =
                   calls[c].expense.doc.rejectionReason]_vars

\* C9: every stored expense has a rejection reason exactly when its status
\* is Rejected.
C9_ReasonIffRejected ==
    \A id \in ExpenseIds :
        (expenses[id].rejectionReason # NullString)
            <=> (expenses[id].status = REJECTED)

\* C10: every stored expense has an approver and a decision timestamp when
\* its status is Approved or Rejected, and neither when it is Pending.
C10_DecisionStampIffDecided ==
    \A id \in ExpenseIds :
        IF Decided(expenses[id])
        THEN expenses[id].approvedBy # NullId
             /\ expenses[id].approvedAt # NullDate
        ELSE expenses[id].approvedBy = NullId
             /\ expenses[id].approvedAt = NullDate

\* C11: when an updateStatus call succeeds, the record returned to the
\* caller and the stored record both have the status that caller requested,
\* that caller as approver and a decision timestamp, also when another
\* updateStatus on the same expense runs concurrently.
C11_SuccessReflectsRequest ==
    [][\A c \in StatusCallers :
          updateStatusReturn(c) =>
            LET requested == calls[c].expense.doc.status
                returned == response'.result.body.expense
                stored == expenses'[calls[c].id]
            IN  /\ returned.status = requested
                /\ returned.approvedBy = c
                /\ returned.approvedAt # NullDate
                /\ stored.status = requested
                /\ stored.approvedBy = c
                /\ stored.approvedAt # NullDate]_vars

SeedEmails == {SeedUserDocs[k].email : k \in DOMAIN SeedUserDocs}
Registered(dto) ==
    NewUser(dto.email, hash(dto.password, 10), dto.firstName, dto.role, TRUE)
Signed(token) == token.sig = Sign(Payload(token), JWT_SECRET)
AllPresentable == UNION {Presentable(tokens[c]) : c \in Clients}

\* C12: a register request whose email is the email of a stored user is
\* answered with the "already exists" conflict, stores no user and issues
\* no token; an email that differs in case only is another email.
C12_DuplicateEmailConflict ==
    [][\A c \in Clients, dto \in RegisterDtos :
          (/\ registerFind(c, dto)
           /\ \E u \in DOMAIN users : users[u].email = dto.email) =>
            /\ response'.result = UserExists
            /\ users' = users
            /\ tokens' = tokens
            /\ calls'[c].pc = "idle"]_vars

C12_Witness ==
    /\ response.op = "register"
    /\ response.result = UserExists
    /\ \E u \in DOMAIN users : users[u].email = response.request.email
    /\ \E u \in DOMAIN users : users[u].email = "Admin@example.com"
    /\ \E u \in DOMAIN users : users[u].email = "admin@example.com"

\* C13: of two register requests for the same unused email that run
\* concurrently, one succeeds and the other is answered with the "already
\* exists" conflict, whatever the order of their lookups and inserts.
C13_ConcurrentRegisterOneWins ==
    [][\A c \in Clients :
          (registerSave(c) /\ calls[c].dto.email \notin SeedEmails) =>
            \/ response'.result.error = "none"
            \/ response'.result = UserExists]_vars

\* C14: no two stored users have the same email, under every interleaving
\* of register requests and seeding.
C14_EmailUnique ==
    \A u, v \in DOMAIN users :
        u # v => users[u].email # users[v].email

C14_Witness ==
    /\ response.op = "register"
    /\ response.result = InternalServerError
    /\ calls["seed"].pc = "done"
    /\ Cardinality(DOMAIN users) >= 3

\* C15: a successful register returns the id of the user it stored, and
\* from then on a login with the email and password of that register
\* request succeeds and returns that same id.
C15_RegisterThenLogin ==
    /\ [](\A dto \in RegisterDtos, u \in DOMAIN users :
            users[u] = Registered(dto) =>
              LET r == loginResult([email |-> dto.email,
                                    password |-> dto.password])
              IN  r.error = "none" /\ r.body.user.id = u)
    /\ [][\A c \in Clients :
             (registerSave(c) /\ response'.result.error = "none") =>
               LET id == response'.result.body.user.id IN
               /\ id \notin DOMAIN users
               /\ id \in DOMAIN users'
               /\ users'[id] = Registered(calls[c].dto)]_vars

C15_Witness ==
    /\ response.op = "login"
    /\ response.result.error = "none"
    /\ \E dto \in RegisterDtos :
          /\ response.request.email = dto.email
          /\ response.request.password = dto.password
          /\ users[response.result.body.user.id] = Registered(dto)

\* C16: login answers "invalid credentials" when no user has the email,
\* "account is inactive" when the user is not active, "invalid
\* credentials" when the password does not verify against the stored hash;
\* a token is returned exactly when the user exists, is active and the
\* password verifies, and a failed login issues none.
C16_LoginOutcomes ==
    /\ [](\A dto \in TokenLogins :
            LET found == {u \in DOMAIN users : users[u].email = dto.email}
                r == loginResult(dto)
            IN  /\ found = {} => r = InvalidCredentials
                /\ \A u \in found :
                      /\ ~users[u].isActive => r = AccountInactive
                      /\ (/\ users[u].isActive
                          /\ ~compare(dto.password, users[u].password))
                            => r = InvalidCredentials
                      /\ (/\ users[u].isActive
                          /\ compare(dto.password, users[u].password))
                            => (r.error = "none" /\ r.body.token.sub = u)
                /\ r.error = "none" =>
                      \E u \in found :
                          /\ users[u].isActive
                          /\ compare(dto.password, users[u].password))
    /\ [][response'.op = "login" =>
             IF response'.result.error = "none"
             THEN tokens'[response'.caller] = response'.result.body.token
             ELSE tokens' = tokens]_vars

C16_Witness ==
    /\ response.op = "login"
    /\ response.result = AccountInactive
    /\ tokens[response.caller] = NoToken

\* C17: a request with a validly signed, unexpired token is answered "user
\* not found or inactive" whenever the token's subject is not a stored
\* user with isActive true at that time, and otherwise resolves to the
\* subject's id and the role stored for it; so every request made with a
\* token of a user after that user was deactivated fails.
C17_InactiveSubjectRefused ==
    \A t \in AllPresentable :
        verify(t) =>
          LET r == JwtAuthGuardResult(t) IN
          IF t.sub \in DOMAIN users /\ users[t.sub].isActive
          THEN /\ r.error = "none"
               /\ r.body.id = t.sub
               /\ r.body.role = users[t.sub].role
          ELSE r = Unauthorized

C17_Witness ==
    /\ response.op = "JwtAuthGuard"
    /\ response.result = Unauthorized
    /\ verify(response.request)
    /\ ~users[response.request.sub].isActive

\* C18: a token is accepted only if its signature verifies and the time
\* is not past its expiry; a token past its expiry, or with a signature
\* that does not verify, is always refused as invalid, also when its
\* subject is a stored active user.
C18_SignatureAndExpiry ==
    \A t \in AllPresentable :
        LET r == JwtAuthGuardResult(t) IN
        /\ r.error = "none" => (Signed(t) /\ now <= t.exp)
        /\ (~Signed(t) \/ now > t.exp) => r = TokenInvalid

C18_Witness ==
    /\ response.op = "JwtAuthGuard"
    /\ response.result = TokenInvalid
    /\ Signed(response.request)
    /\ now > response.request.exp
    /\ users[response.request.sub].isActive

\* C19: the answer of login for an email that no user has is the same
\* error with the same message as its answer for a stored active user with
\* a wrong password.
C19_UnknownEmailLikeWrongPassword ==
    \A d1, d2 \in TokenLogins :
        (/\ \A u \in DOMAIN users : users[u].email # d1.email
         /\ \E u \in DOMAIN users :
               /\ users[u].email = d2.email
               /\ users[u].isActive
               /\ ~compare(d2.password, users[u].password))
        => loginResult(d1) = loginResult(d2)

C19_Witness ==
    /\ response.op = "login"
    /\ response.result = InvalidCredentials
    /\ \E u \in DOMAIN users :
          /\ users[u].email = response.request.email
          /\ users[u].isActive
          /\ ~compare(response.request.password, users[u].password)

\* C20: every expense stored by create has status Pending, the caller of
\* the request as owner, and no approver, decision timestamp or rejection
\* reason, whatever the request body carries.
C20_CreateStoresPendingOwned ==
    [][Len(expenses') > Len(expenses) =>
          LET e == expenses'[Len(expenses')] IN
          /\ response'.op = "create"
          /\ e.status = PENDING
          /\ e.userId = response'.caller
          /\ e.approvedBy = NullId
          /\ e.approvedAt = NullDate
          /\ e.rejectionReason = NullString]_vars

\* C21: a create whose amount is below 0.01 (zero and negative included),
\* whose category is not in the enum or whose date does not parse is
\* answered with a validation error and writes nothing; every stored
\* expense has an amount of at least 0.01 and a category of the enum.
C21_CreateValidatesBeforeWrite ==
    /\ [](\A id \in ExpenseIds :
             /\ expenses[id].amount >= 1
             /\ expenses[id].category \in ExpenseCategory)
    /\ [][\A c \in CreateCallers, body \in InvalidBodies :
             create(c, body) =>
               /\ response'.result = ValidationError
               /\ expenses' = expenses]_vars

C21_Witness ==
    /\ response.op = "create"
    /\ response.result = ValidationError
    /\ Len(expenses) >= 1

RECURSIVE SumAmounts(_)
SumAmounts(ids) ==
    IF ids = {} THEN 0
    ELSE LET i == CHOOSE i \in ids : TRUE
         IN  expenses[i].amount + SumAmounts(ids \ {i})

\* C22: GET /auth/users and GET /expenses/pending are refused with
\* Forbidden to every caller whose role is Employee, who gets no list
\* content, and answered to every caller whose role is Admin.
C22_AdminOnlyLists ==
    /\ \A c \in ReadCallers :
          LET p == Guarded("getPendingExpenses", validate(c),
                           getPendingExpensesResult)
              l == Guarded("getAllUsers", validate(c), getAllUsersResult)
          IN  IF c \in Employees
              THEN p = Forbidden /\ l = Forbidden
              ELSE /\ p = Ok(getPendingExpensesResult)
                   /\ l = Ok(getAllUsersResult)
    /\ response.op \in {"getPendingExpenses", "getAllUsers"} =>
          IF response.caller \in Employees
          THEN response.result = Forbidden /\ ~response.fetched
          ELSE response.result.error = "none"

C22_Witness ==
    /\ response.op = "getPendingExpenses"
    /\ response.caller \in Employees
    /\ response.result = Forbidden
    /\ \E i \in ExpenseIds : expenses[i].status = PENDING

\* C23: GET /expenses/:id is answered NotFound whenever the id is not the
\* id of a stored expense, for employees and admins alike; it is answered
\* Forbidden only when the expense exists and the caller is an Employee
\* who does not own it.
C23_NotFoundBeforeForbidden ==
    /\ \A c \in ReadCallers, id \in IdParams :
          LET r == findOneResult(id, c, Role(c)) IN
          /\ id \notin ExpenseIds => r.error = "NotFound"
          /\ r.error = "Forbidden" =>
                /\ id \in ExpenseIds
                /\ c \in Employees
                /\ expenses[id].userId # c
    /\ (response.op = "findOne" /\ response.result.error = "Forbidden") =>
          /\ response.caller \in Employees
          /\ \E id \in ExpenseIds : expenses[id].userId # response.caller

C23_Witness ==
    /\ response.op = "findOne"
    /\ response.result = ExpenseNotFound
    /\ response.caller \in Employees
    /\ \E id \in ExpenseIds : expenses[id].userId # response.caller

\* C24: GET /expenses returns exactly the stored expenses in the caller's
\* scope (the caller's own for an Employee, all for an Admin) that have
\* the category and the status of the query when given, an expenseDate not
\* before startDate when given and not after endDate when given; each
\* once.
C24_FindAllExactlyMatching ==
    \A c \in ReadCallers, q \in Queries :
        LET r == findAllResult(c, Role(c), q)
            wanted ==
              {i \in ExpenseIds :
                 /\ c \in Admins \/ expenses[i].userId = c
                 /\ q.category = Undefined
                       \/ expenses[i].category = q.category
                 /\ q.status = Undefined \/ expenses[i].status = q.status
                 /\ q.startDate = Undefined
                       \/ ParseDate(q.startDate) <= expenses[i].expenseDate
                 /\ q.endDate = Undefined
                       \/ expenses[i].expenseDate <= ParseDate(q.endDate)}
        IN  /\ Len(r) = Cardinality(wanted)
            /\ {r[k].expense : k \in 1..Len(r)} =
                  {expenses[i] : i \in wanted}

C24_Witness ==
    /\ response.op = "findAll"
    /\ response.caller \in Admins
    /\ Len(response.result.body) >= 1
    /\ Len(response.result.body) < Len(expenses)

\* C25: GET /expenses/pending returns exactly the stored expenses whose
\* status is Pending, of every owner, each once, an expense created
\* earlier before one created later.
C25_PendingQueueOldestFirst ==
    LET r == getPendingExpensesResult
        pending == {i \in ExpenseIds : expenses[i].status = PENDING}
    IN  /\ Len(r) = Cardinality(pending)
        /\ {r[k].expense : k \in 1..Len(r)} = {expenses[i] : i \in pending}
        /\ \A j, k \in 1..Len(r) :
              j < k => r[j].expense.createdAt < r[k].expense.createdAt
        /\ (response.op = "getPendingExpenses"
              /\ response.result.error = "none")
             => response.result.body = r

C25_Witness ==
    /\ response.op = "getPendingExpenses"
    /\ response.result.error = "none"
    /\ Len(response.result.body) >= 2
    /\ response.result.body[1].expense.userId
          # response.result.body[2].expense.userId

C26_UserListComplete ==
    /\ [](LET r == getAllUsersResult IN
          /\ Len(r) = Cardinality(DOMAIN users)
          /\ {r[k].id : k \in 1..Len(r)} = DOMAIN users
          /\ \A k \in 1..Len(r) :
                /\ "password" \notin DOMAIN r[k]
                /\ r[k].email = users[r[k].id].email
                /\ r[k].role = users[r[k].id].role
                /\ r[k].isActive = users[r[k].id].isActive
          /\ \A j, k \in 1..Len(r) :
                j < k => r[j].createdAt > r[k].createdAt)
    /\ [][(/\ response' # response
           /\ response'.op = "getAllUsers"
           /\ response'.result.error = "none")
            => response'.result.body = getAllUsersResult]_vars

C26_Witness ==
    /\ response.op = "getAllUsers"
    /\ response.result.error = "none"
    /\ Len(response.result.body) >= 3
    /\ UserCreatedAt(response.result.body[1].id)
          > UserCreatedAt(response.result.body[3].id)

\* C27: a successful register stores exactly one new user, active, with
\* the requested role or Employee when none is requested, and returns a
\* user view without the password hash and a token whose subject is the
\* id of the new user and whose email is its email.
C27_RegisterStoresOneUser ==
    [][\A c \in Clients :
          (registerSave(c) /\ response'.result.error = "none") =>
            LET dto == calls[c].dto
                view == response'.result.body.user
                token == response'.result.body.token
                id == view.id
            IN  /\ id \notin DOMAIN users
                /\ DOMAIN users' = DOMAIN users \cup {id}
                /\ \A u \in DOMAIN users : users'[u] = users[u]
                /\ users'[id].isActive = TRUE
                /\ users'[id].email = dto.email
                /\ users'[id].role =
                      (IF dto.role = Undefined THEN EMPLOYEE ELSE dto.role)
                /\ "password" \notin DOMAIN view
                /\ view.email = dto.email
                /\ view.role = users'[id].role
                /\ token.sub = id
                /\ token.email = users'[id].email
                /\ Signed(token)]_vars

C27_Witness ==
    /\ response.op = "register"
    /\ response.result.error = "none"
    /\ response.result.body.user.role = ADMIN
    /\ users[response.result.body.user.id].role = ADMIN
    /\ Cardinality(DOMAIN users) >= 2

FramePaths == {"_id", "userId", "amount", "category", "expenseDate", "createdAt"}

C31_ReadsWriteNothing ==
    [][users' = users /\ expenses' = expenses]_vars

C31_Witness ==
    /\ response.op = "findOne"
    /\ response.caller \in Admins
    /\ response.result.error = "none"
    /\ Len(expenses) >= 2
    /\ \E id \in ExpenseIds : Decided(expenses[id])

\* C32: no step removes a user or an expense, and no step changes the role
\* or the email of a stored user or the owner of a stored expense.
C32_StoresOnlyGrow ==
    [][/\ DOMAIN users \subseteq DOMAIN users'
       /\ \A u \in DOMAIN users :
             /\ users'[u].role = users[u].role
             /\ users'[u].email = users[u].email
       /\ Len(expenses') >= Len(expenses)
       /\ \A id \in ExpenseIds :
             /\ expenses'[id]._id = expenses[id]._id
             /\ expenses'[id].userId = expenses[id].userId]_vars

C32_Witness ==
    /\ Cardinality(DOMAIN users) = 4
    /\ ~users[IdPool[3]].isActive
    /\ response.op = "updateStatus"
    /\ response.result.error = "none"
    /\ \E id \in ExpenseIds :
          /\ Decided(expenses[id])
          /\ expenses[id].approvedBy = AppAdmin
          /\ expenses[id].userId = IdPool[2]

DecisionPaths == {"status", "approvedBy", "approvedAt", "rejectionReason"}

\* C33: the status, approver, decision timestamp and rejection reason of a
\* stored expense all come from one updateStatus call: after the save of a
\* call the four fields of the record are the four fields of the document
\* that call saved, also when calls on the same record interleave.
C33_DecisionFromOneCall ==
    [][\A c \in StatusCallers :
          (calls[c].pc = "save" /\ calls'[c].pc = "refetch") =>
             \A p \in DecisionPaths :
                expenses'[calls[c].id][p] = calls[c].expense.doc[p]]_vars

C35_GuardOrder ==
    \A id \in IdParams, d \in AppStatusDtos :
        LET r == updateStatusOutcome(AppAdmin, id, d).result IN
        IF id \notin ExpenseIds
        THEN r.error = "NotFound"
        ELSE IF expenses[id].status # PENDING
        THEN r = InvalidTransition
        ELSE IF d.status = REJECTED /\ ~Truthy(d.rejectionReason)
        THEN r = MissingReason
        ELSE r.error = "none"

C35_Witness ==
    /\ response.op = "updateStatus"
    /\ response.caller = AppAdmin
    /\ response.result = InvalidTransition
    /\ Len(expenses) >= 1
    /\ \A id \in ExpenseIds :
          /\ expenses[id].status = REJECTED
          /\ Truthy(expenses[id].rejectionReason)

\* C36: login tests isActive before it compares the password: for the
\* email of an inactive user it answers "account is inactive" with the
\* right and with a wrong password alike, and that answer differs from the
\* answer for an email no user has, so the answers tell an inactive
\* account from a missing one.
C36_InactiveBeforePassword ==
    \A dto \in TokenLogins :
        (\E u \in userFindOne(dto.email) : ~users[u].isActive) =>
           /\ loginResult(dto) = AccountInactive
           /\ \A other \in TokenLogins :
                 userFindOne(other.email) = {} =>
                    loginResult(other) # loginResult(dto)

C36_Witness ==
    /\ response.op = "login"
    /\ response.result = AccountInactive
    /\ \E u \in userFindOne(response.request.email) :
          /\ ~users[u].isActive
          /\ ~compare(response.request.password, users[u].password)

\* C37: a run of seed() that finds at least one user at its count ends
\* there and changes neither collection; a run that has ended leaves at
\* least one user behind, so every later run (after a completed seed as
\* after a register) is such a run; and of the expenses seed() writes the
\* Approved and Rejected ones have an admin as approver and a decision
\* timestamp, the Rejected one a reason, and the Pending ones none of the
\* three.
C37_SeedOnlyWhenEmpty ==
    /\ [][(/\ calls["seed"].pc = "idle"
           /\ calls'["seed"] # calls["seed"]
           /\ DOMAIN users # {})
             => /\ calls'["seed"].pc = "done"
                /\ users' = users
                /\ expenses' = expenses]_vars
    /\ [](calls["seed"].pc = "done" => DOMAIN users # {})
    /\ [](\A id \in ExpenseIds :
             LET e == expenses[id] IN
             /\ Decided(e) => (e.approvedBy \in Admins
                                /\ e.approvedAt # NullDate)
             /\ e.status = REJECTED => Truthy(e.rejectionReason)
             /\ e.status = PENDING => /\ e.approvedBy = NullId
                                       /\ e.approvedAt = NullDate
                                       /\ ~Truthy(e.rejectionReason))

C37_Witness ==
    /\ calls["seed"] = [pc |-> "done", ids |-> <<>>]
    /\ Len(expenses) = 8
    /\ Cardinality(DOMAIN users) >= 4
    /\ \E id \in ExpenseIds : expenses[id].status = REJECTED

====
